---- MODULE Spec2Model ----
(***************************************************************************)
(* Model of the Neo4j graph build of projet_nosql:                         *)
(*   app/initialization_scripts/build_graph.py                             *)
(* A run of the script imports the Mongo collection into Protein / Domain  *)
(* nodes and HAS_DOMAIN relationships (import_proteins_and_domains,        *)
(* import_batch), then rebuilds the SIMILAR relationships with the GDS     *)
(* Node Similarity procedure and fills shared_domains / union_domains      *)
(* from the Jaccard weight (build_similarity_edges_gds_math).              *)
(*                                                                         *)
(* The Neo4j store is modelled at the level of the Cypher statements the   *)
(* script sends: nodes are sequences (index = internal node id, in         *)
(* creation order), relationships are bags, so that duplicate nodes and    *)
(* duplicate relationships are representable.  Every session.run is one    *)
(* auto-commit transaction, hence one atomic action.                       *)
(***************************************************************************)
EXTENDS Integers, Sequences, FiniteSets, Bags, TLC

\* ------------------------------------------------------------------ bounds
\* number of executions of the script (__main__) in one behaviour
MaxRuns == 2
\* rows per import batch; scaled stand-in for IMPORT_BATCH_SIZE = 2500
BatchSize == 2
\* a stored float keeps WeightScale steps between 0 and 1 (fixed point;
\* a Neo4j double is finer than this)
WeightScale == 1048576
\* largest domain count drawn for the weight-to-count reconstruction
MaxCount == 10

\* --------------------------------------------------------------- constants
\* Cypher null (a property that is not set)
Null == -1
\* gds.nodeSimilarity default topK: scores kept per node (not overridden in the call)
TopK == 10
\* gds.nodeSimilarity default degreeCutoff (not overridden in the call)
DegreeCutoff == 1

\* ------------------------------------------------------------ float helpers
\* x / y rounded to the nearest integer, ties up (Cypher round(), x, y >= 0)
RoundDiv(x, y) == (2 * x + y) \div (2 * y)

\* the stored float nearest to the rational i / u
Quant(i, u) == RoundDiv(i * WeightScale, u)

\* MIN_JACCARD_WEIGHT = 0.1 as the stored float
MIN_JACCARD_WEIGHT == Quant(1, 10)

\* ------------------------------------------------------------- Mongo source
\* a document of the collection all_proteins, with the projected fields
Doc(id, uid, name, ids) ==
    [_id |-> id, uniprot_id |-> uid, entry_name |-> name, interpro_ids |-> ids]

Range(s) == {s[i] : i \in 1..Len(s)}

RECURSIVE SeqFromTo(_, _)
SeqFromTo(a, b) == IF a > b THEN <<>> ELSE <<a>> \o SeqFromTo(a + 1, b)

\* contents the collection can have when a run starts
SmallCollections ==
    { <<>>,
      \* a protein without any domain
      << Doc(4, Null, 1, <<>>) >>,
      \* J(1,2) = 1/10 (on the threshold), J(1,3) = 1/11 (below), J(2,3) = 6/7
      << Doc(1, 1, 1, SeqFromTo(1, 5)), Doc(2, 2, 1, SeqFromTo(5, 10)),
         Doc(3, 3, 1, SeqFromTo(5, 11)) >>,
      \* the same proteins again: new entry_name, a repeated tag, one more
      \* domain for protein 2 (J(1,2) drops to 1/11)
      << Doc(2, 2, 2, <<11>>), Doc(1, 1, 2, <<1, 1>>) >>,
      \* five documents: one without any id, one identified by _id only
      << Doc(1, 1, 1, SeqFromTo(1, 5)), Doc(0, Null, 1, <<7>>),
         Doc(4, Null, 2, <<>>), Doc(2, 2, 1, SeqFromTo(5, 10)),
         Doc(5, 5, 1, <<1, 2>>) >>,
      \* three documents, the second with a null among its interpro_ids
      << Doc(6, 6, 1, <<12>>), Doc(7, 7, 1, <<Null>>), Doc(8, 8, 1, <<12>>) >> }

\* twelve proteins over three domains: proteins 1 and 2 share a domain
\* (J = 1/3) and each has ten neighbours with a higher score (J = 2/3)
TopKCollection ==
    << Doc(1, 1, 1, <<1, 2>>), Doc(2, 2, 1, <<1, 3>>) >>
    \o [i \in 1..10 |-> Doc(i + 2, i + 2, 1, <<1, 2, 3>>)]

Collections == SmallCollections \cup {TopKCollection}

VARIABLES
    pc,               \* position of the script
    runs,             \* executions of the script started so far
    cursor,           \* documents the Mongo cursor has not yet returned
    batch,            \* import_proteins_and_domains: batch
    total_processed,  \* import_proteins_and_domains: total_processed
    schema,           \* constraints and indexes that exist in Neo4j
    protNodes,        \* Protein nodes, in creation order
    domNodes,         \* Domain nodes (their interpro_id), in creation order
    hasDomain,        \* bag of HAS_DOMAIN relationships <<protein node, domain node>>
    similar,          \* bag of SIMILAR relationships
    projection,       \* the named GDS in-memory graph
    log,              \* steps of the current run that have completed
    lastRows,         \* rows of the latest import_batch call
    math,             \* inputs and output of the weight-to-count reconstruction
    viz,              \* a neighbourhood request: its center, depth, query result and export
    demo,             \* the combined demo: its position, the two connections, its flag
    builds,           \* history: the graph and the edges at the end of each completed rebuild
    applied,          \* history: the batches import_batch has been called with
    reapplied,        \* history: the latest batch had been applied before
    interrupted,      \* history: the steps at which a run has been interrupted
    sourceDocs,       \* history: the documents of the collection this run reads
    batches           \* history: the batches passed to import_batch in this run

vars == << pc, runs, cursor, batch, total_processed, schema, protNodes, domNodes,
           hasDomain, similar, projection, log, lastRows, math, viz, demo,
           builds, applied, reapplied, interrupted, sourceDocs, batches >>

history == << builds, applied, reapplied, interrupted, sourceDocs, batches >>

\* ------------------------------------------------------------ import_batch
\* the graph part that import_batch reads and writes
Graph(p, d, h) == [p |-> p, d |-> d, h |-> h]

\* nodes matched by (:Protein {uniprot_id: uid}) / (:Domain {interpro_id: iid})
MatchProtein(p, uid) == {i \in 1..Len(p) : p[i].uniprot_id = uid}

MatchDomain(d, iid) == {j \in 1..Len(d) : d[j] = iid}

\* variant: CREATE instead of MERGE, a new Protein node for every row
MergeProteinCreate(p, row) ==
    Append(p, [uniprot_id |-> row.uniprot_id, entry_name |-> row.entry_name,
               domain_count |-> Null])

\* MERGE (p:Protein {uniprot_id: row.uniprot_id}) SET p.entry_name = ...
MergeProtein(p, row) ==
    IF MatchProtein(p, row.uniprot_id) = {}
    THEN Append(p, [uniprot_id |-> row.uniprot_id, entry_name |-> row.entry_name,
                    domain_count |-> Null])
    ELSE [i \in 1..Len(p) |->
            IF p[i].uniprot_id = row.uniprot_id
            THEN [p[i] EXCEPT !.entry_name = row.entry_name]
            ELSE p[i]]

\* MERGE (d:Domain {interpro_id: interpro_id})
MergeDomain(d, iid) == IF MatchDomain(d, iid) = {} THEN Append(d, iid) ELSE d

\* variant: CREATE instead of MERGE, a new relationship for every matched pair
MergeHasDomainCreate(h, pairs) == h (+) SetToBag(pairs)

\* MERGE (p)-[:HAS_DOMAIN]->(d), for every matched pair
MergeHasDomain(h, pairs) == h (+) SetToBag({pr \in pairs : ~BagIn(pr, h)})

\* UNWIND row.interpro_ids AS interpro_id MERGE (d) MERGE (p)-[:HAS_DOMAIN]->(d)
RECURSIVE UnwindDomains(_, _, _)
UnwindDomains(g, uid, ids) ==
    IF ids = <<>> THEN g
    ELSE LET d1 == MergeDomain(g.d, Head(ids))
             pairs == MatchProtein(g.p, uid) \X MatchDomain(d1, Head(ids))
         IN UnwindDomains(Graph(g.p, d1, MergeHasDomain(g.h, pairs)), uid, Tail(ids))

\* UNWIND $rows AS row ... : the rows of one batch, in order, in one transaction
RECURSIVE import_batch(_, _)
import_batch(g, rows) ==
    IF rows = <<>> THEN g
    ELSE LET row == Head(rows)
             g1 == Graph(MergeProtein(g.p, row), g.d, g.h)
         IN import_batch(UnwindDomains(g1, row.uniprot_id, row.interpro_ids), Tail(rows))

\* variant: the _id is not looked at
DocIdUniprotOnly(doc) == doc.uniprot_id

\* uniprot_id = doc.get("uniprot_id") or doc.get("_id")
DocId(doc) ==
    IF doc.uniprot_id # Null /\ doc.uniprot_id # 0 THEN doc.uniprot_id ELSE doc._id

\* the row appended to the batch for a document
Row(doc) ==
    [uniprot_id |-> DocId(doc), entry_name |-> doc.entry_name,
     interpro_ids |-> doc.interpro_ids]

\* --------------------------------------------------------------- rebuild
\* image of a bag under the function f, copies added up
RECURSIVE SumCopies(_, _)
SumCopies(B, S) ==
    IF S = {} THEN 0
    ELSE LET e == CHOOSE x \in S : TRUE IN B[e] + SumCopies(B, S \ {e})

BagImage(B, f) ==
    LET S == BagToSet(B)
    IN [t \in {f[e] : e \in S} |-> SumCopies(B, {e \in S : f[e] = t})]

\* variant: the deletion is skipped
DeleteSimilarNothing(sim) == sim

\* variant: only the relationships from a later node to an earlier one are deleted
DeleteSimilarOneDirection(sim) ==
    [e \in {r \in BagToSet(sim) : r.src < r.dst} |-> sim[e]]

\* 'MATCH ()-[r:SIMILAR]-() RETURN r', 'DELETE r': no SIMILAR relationship is left
DeleteSimilar(sim) == EmptyBag

\* variant: the pattern does not name the type, every relationship is deleted
KeptByDeleteUntyped(h) == EmptyBag

\* the pattern -[r:SIMILAR]- matches no HAS_DOMAIN relationship: all are kept
KeptByDelete(h) == h

NoProjection == [exists |-> FALSE, vectors |-> <<>>]

\* variant: a projection left in memory is not dropped
DropIfExistsSkipped(proj) == proj

\* gds.graph.exists(GRAPH_NAME) ... WHERE exists CALL gds.graph.drop(GRAPH_NAME)
DropIfExists(proj) == NoProjection

\* domains a Protein node points to through HAS_DOMAIN
Targets(h, i) == {pr[2] : pr \in {q \in BagToSet(h) : q[1] = i}}

\* gds.graph.project(GRAPH_NAME, ['Protein', 'Domain'], 'HAS_DOMAIN'): a snapshot
\* of the outgoing HAS_DOMAIN targets of every Protein node
ProjectGraph(p, h) == [exists |-> TRUE, vectors |-> [i \in 1..Len(p) |-> Targets(h, i)]]

\* the projection is refused when the name is taken or when a projected label
\* or relationship type does not exist in the database
ProjectionRefused(proj, p, d, h) ==
    proj.exists \/ Len(p) = 0 \/ Len(d) = 0 \/ h = EmptyBag

\* similarityMetric: 'JACCARD' on two target sets, as the stored float
Jaccard(v1, v2) == Quant(Cardinality(v1 \cap v2), Cardinality(v1 \cup v2))

\* variant: the cutoff is not passed, every positive score is kept
ReachesCutoffAnyPositive(score, threshold) == score > 0

\* similarityCutoff: the score is kept when it reaches the cutoff
ReachesCutoff(score, threshold) == score >= threshold

\* nodes gds.nodeSimilarity compares: at least DegreeCutoff outgoing relationships
Compared(vectors) == {i \in DOMAIN vectors : Cardinality(vectors[i]) >= DegreeCutoff}

\* the other nodes whose score with node i reaches the cutoff
Candidates(vectors, i, threshold) ==
    {j \in Compared(vectors) \ {i} :
        ReachesCutoff(Jaccard(vectors[i], vectors[j]), threshold)}

\* topK: the K best scores of node i, the earlier node first among equal scores
TopKOf(vectors, i, threshold) ==
    LET cand == Candidates(vectors, i, threshold)
        Beats(k, j) ==
            \/ Jaccard(vectors[i], vectors[k]) > Jaccard(vectors[i], vectors[j])
            \/ /\ Jaccard(vectors[i], vectors[k]) = Jaccard(vectors[i], vectors[j])
               /\ k < j
    IN {j \in cand : Cardinality({k \in cand : Beats(k, j)}) < TopK}

\* gds.nodeSimilarity.write: one new SIMILAR relationship i -> j, carrying
\* jaccard_weight, for every node i and every node j among its top K
run_gds_similarity(sim, proj, threshold, run) ==
    sim (+) SetToBag(
        { [src |-> i, dst |-> j,
           jaccard_weight |-> Jaccard(proj.vectors[i], proj.vectors[j]),
           shared_domains |-> Null, union_domains |-> Null, written_in |-> run] :
          <<i, j>> \in {pr \in Compared(proj.vectors) \X Compared(proj.vectors) :
                          pr[2] \in TopKOf(proj.vectors, pr[1], threshold)} })

\* COUNT { (p)-[:HAS_DOMAIN]->() }
OutDegree(h, i) == SumCopies(h, {q \in BagToSet(h) : q[1] = i})

\* variant: only the proteins that have a HAS_DOMAIN relationship are matched
precalculate_domain_counts_matched(p, h) ==
    [i \in 1..Len(p) |->
        IF OutDegree(h, i) = 0 THEN p[i] ELSE [p[i] EXCEPT !.domain_count = OutDegree(h, i)]]

\* SET p.domain_count = COUNT { (p)-[:HAS_DOMAIN]->() }, for every Protein
precalculate_domain_counts(p, h) ==
    [i \in 1..Len(p) |-> [p[i] EXCEPT !.domain_count = OutDegree(h, i)]]

\* variant: the union forgets to take the intersection off
ReconstructUnionAsSum(J, A, B) ==
    IF A = Null \/ B = Null \/ J = Null
    THEN [shared |-> Null, union |-> Null]
    ELSE [shared |-> RoundDiv(J * (A + B), WeightScale + J), union |-> A + B]

\* variant: toInteger without round, the quotient is truncated
ReconstructTruncated(J, A, B) ==
    IF A = Null \/ B = Null \/ J = Null
    THEN [shared |-> Null, union |-> Null]
    ELSE LET intersect == (J * (A + B)) \div (WeightScale + J)
         IN [shared |-> intersect, union |-> (A + B) - intersect]

\* toInteger(round((J * (A + B)) / (1.0 + J))), and (A + B) - intersect
Reconstruct(J, A, B) ==
    IF A = Null \/ B = Null \/ J = Null
    THEN [shared |-> Null, union |-> Null]
    ELSE LET intersect == RoundDiv(J * (A + B), WeightScale + J)
         IN [shared |-> intersect, union |-> (A + B) - intersect]

\* SET r.shared_domains = intersect, r.union_domains = (A + B) - intersect,
\* for every (p1)-[r:SIMILAR]->(p2)
calculate_shared_union_domains_math(sim, p) ==
    LET Fill(r) ==
            LET c == Reconstruct(r.jaccard_weight, p[r.src].domain_count,
                                 p[r.dst].domain_count)
            IN [r EXCEPT !.shared_domains = c.shared, !.union_domains = c.union]
    IN BagImage(sim, [r \in BagToSet(sim) |-> Fill(r)])

\* the properties stored on the SIMILAR relationships, without the run that wrote them
Stored(sim) ==
    LET Props(r) == [src |-> r.src, dst |-> r.dst, jaccard_weight |-> r.jaccard_weight,
                     shared_domains |-> r.shared_domains,
                     union_domains |-> r.union_domains]
    IN BagImage(sim, [r \in BagToSet(sim) |-> Props(r)])

\* variant: domain_count is recomputed right after the cleaning, before the projection
StepAfterCountsFirst(step) ==
    CASE step = "clean"      -> "clean_gds"
      [] step = "clean_gds"  -> "counts"
      [] step = "counts"     -> "project"
      [] step = "project"    -> "similarity"
      [] step = "similarity" -> "drop"
      [] step = "drop"       -> "enrich"
      [] step = "enrich"     -> "done"

\* variant: the counts are recomputed after the reconstruction has read them
StepAfterCountsLast(step) ==
    CASE step = "clean"      -> "clean_gds"
      [] step = "clean_gds"  -> "project"
      [] step = "project"    -> "similarity"
      [] step = "similarity" -> "drop"
      [] step = "drop"       -> "enrich"
      [] step = "enrich"     -> "counts"
      [] step = "counts"     -> "done"

\* build_similarity_edges_gds_math: the step that follows each step
StepAfter(step) ==
    CASE step = "clean"      -> "clean_gds"
      [] step = "clean_gds"  -> "project"
      [] step = "project"    -> "similarity"
      [] step = "similarity" -> "drop"
      [] step = "drop"       -> "counts"
      [] step = "counts"     -> "enrich"
      [] step = "enrich"     -> "done"

\* the constraints and the index import_proteins_and_domains asks for
RequiredSchema ==
    {"Protein.uniprot_id unique", "Domain.interpro_id unique", "Protein.organism index"}

\* variant: the three statements are not sent
CreateIfNotExistsSkipped(s) == s

\* CREATE CONSTRAINT IF NOT EXISTS ... (twice), CREATE INDEX IF NOT EXISTS ...
CreateIfNotExists(s) == s \cup RequiredSchema

\* ---------------------------------------------------------------- actions
Stopped == {"idle", "done", "failed"}

\* no neighbourhood request
VizIdle == [phase |-> "off", at |-> "idle", center |-> Null, depth |-> 0,
            raised |-> FALSE, data |-> <<>>, elements |-> [nodes |-> {}, edges |-> <<>>]]

\* CombinedProteinQueryDemo(): no client, no driver, connected = False
DemoIdle == [pc |-> "off", protein_id |-> Null, sample_id |-> Null, client |-> "none",
             driver |-> "none", connected |-> FALSE, step |-> 0]

MathIdle == [phase |-> "off", A |-> 0, B |-> 0, I |-> 0, J |-> Null,
             shared |-> Null, union |-> Null]

Init ==
    /\ pc = "idle"
    /\ runs = 0
    /\ cursor = <<>>
    /\ batch = <<>>
    /\ total_processed = 0
    /\ schema = {}
    /\ protNodes = <<>>
    /\ domNodes = <<>>
    /\ hasDomain = EmptyBag
    /\ similar = EmptyBag
    /\ projection = NoProjection
    /\ log = <<>>
    /\ lastRows = <<>>
    /\ math = MathIdle
    /\ viz = VizIdle
    /\ demo = DemoIdle
    /\ builds = <<>>
    /\ applied = {}
    /\ reapplied = FALSE
    /\ interrupted = {}
    /\ sourceDocs = <<>>
    /\ batches = <<>>

\* what the collection can hold when a run starts: anything at the first run;
\* later the large collection is still as it was, the small ones may have
\* changed into one another
NextSources ==
    IF runs = 0 THEN Collections
    ELSE IF sourceDocs = TopKCollection THEN {TopKCollection}
    ELSE SmallCollections

\* __main__: cursor = col.find({}, projection=...), driver.session()
Start ==
    /\ pc \in Stopped
    /\ runs < MaxRuns
    /\ \E c \in NextSources : cursor' = c /\ sourceDocs' = c
    /\ batches' = <<>>
    /\ runs' = runs + 1
    /\ pc' = "constraints"
    /\ batch' = <<>>
    /\ total_processed' = 0
    /\ log' = <<>>
    /\ lastRows' = <<>>
    /\ reapplied' = FALSE
    /\ UNCHANGED << schema, protNodes, domNodes, hasDomain, similar, projection, math,
                    viz, demo, builds, applied, interrupted >>

\* CREATE CONSTRAINT IF NOT EXISTS ... (twice), CREATE INDEX IF NOT EXISTS ...
EnsureConstraints ==
    /\ pc = "constraints"
    /\ schema' = CreateIfNotExists(schema)
    /\ pc' = "import"
    /\ log' = Append(log, "constraints")
    /\ UNCHANGED << runs, cursor, batch, total_processed, protNodes, domNodes,
                    hasDomain, similar, projection, lastRows, math, viz, demo, history >>

\* import_batch(session, batch); total_processed += len(batch)
Flush(rows, steps) ==
    LET g == import_batch(Graph(protNodes, domNodes, hasDomain), rows)
    IN /\ protNodes' = g.p
       /\ domNodes' = g.d
       /\ hasDomain' = g.h
       /\ total_processed' = total_processed + Len(rows)
       /\ lastRows' = rows
       /\ log' = log \o steps
       /\ applied' = applied \cup {rows}
       /\ reapplied' = (rows \in applied)
       /\ batches' = Append(batches, rows)
       /\ UNCHANGED << builds, sourceDocs >>

\* MERGE (d:Domain {interpro_id: interpro_id}) cannot merge on a null value:
\* the statement raises for a batch that holds such a row
Raises(rows) == \E k \in 1..Len(rows) : Null \in Range(rows[k].interpro_ids)

\* for doc in cursor: if not uniprot_id: continue
SkipDoc ==
    /\ pc = "import"
    /\ cursor # <<>>
    /\ DocId(Head(cursor)) \in {Null, 0}
    /\ cursor' = Tail(cursor)
    /\ UNCHANGED << pc, runs, batch, total_processed, schema, protNodes, domNodes,
                    hasDomain, similar, projection, log, lastRows, math, viz, demo, history >>

\* for doc in cursor: batch.append(...), the batch is not full yet
AppendDoc ==
    /\ pc = "import"
    /\ cursor # <<>>
    /\ DocId(Head(cursor)) \notin {Null, 0}
    /\ Len(batch) + 1 < BatchSize
    /\ batch' = Append(batch, Row(Head(cursor)))
    /\ cursor' = Tail(cursor)
    /\ UNCHANGED << pc, runs, total_processed, schema, protNodes, domNodes,
                    hasDomain, similar, projection, log, lastRows, math, viz, demo, history >>

\* for doc in cursor: batch.append(...), len(batch) >= IMPORT_BATCH_SIZE
AppendAndFlush ==
    /\ pc = "import"
    /\ cursor # <<>>
    /\ DocId(Head(cursor)) \notin {Null, 0}
    /\ Len(batch) + 1 >= BatchSize
    /\ ~Raises(Append(batch, Row(Head(cursor))))
    /\ Flush(Append(batch, Row(Head(cursor))), <<"import_batch">>)
    /\ batch' = <<>>
    /\ cursor' = Tail(cursor)
    /\ UNCHANGED << pc, runs, schema, similar, projection, math, viz, demo, interrupted >>

\* after the loop: if batch: import_batch(session, batch)
FinalFlush ==
    /\ pc = "import"
    /\ cursor = <<>>
    /\ batch # <<>>
    /\ ~Raises(batch)
    /\ Flush(batch, <<"import_batch", "import">>)
    /\ pc' = "clean"
    /\ UNCHANGED << runs, cursor, batch, schema, similar, projection, math, viz, demo,
                    interrupted >>

\* the batch the loop is about to pass to import_batch: a full one inside the
\* loop, what is left after it
DueBatch ==
    IF cursor = <<>> THEN batch
    ELSE IF DocId(Head(cursor)) \notin {Null, 0} /\ Len(batch) + 1 >= BatchSize
         THEN Append(batch, Row(Head(cursor)))
    ELSE <<>>

\* import_batch raises: the transaction of the batch is rolled back, nothing
\* catches the exception and it leaves __main__ through the finally block
ImportBatchRaises ==
    /\ pc = "import"
    /\ Raises(DueBatch)
    /\ batch' = DueBatch
    /\ cursor' = IF cursor = <<>> THEN cursor ELSE Tail(cursor)
    /\ pc' = "failed"
    /\ interrupted' = interrupted \cup {"import_batch"}
    /\ UNCHANGED << runs, total_processed, schema, protNodes, domNodes, hasDomain,
                    similar, projection, log, lastRows, math, viz, demo, builds, applied,
                    reapplied, sourceDocs, batches >>

\* after the loop, nothing left in the batch
ImportFinished ==
    /\ pc = "import"
    /\ cursor = <<>>
    /\ batch = <<>>
    /\ pc' = "clean"
    /\ log' = Append(log, "import")
    /\ UNCHANGED << runs, cursor, batch, total_processed, schema, protNodes, domNodes,
                    hasDomain, similar, projection, lastRows, math, viz, demo, history >>

\* clean_previous_data, first statement
CleanRelationships ==
    /\ pc = "clean"
    /\ similar' = DeleteSimilar(similar)
    /\ hasDomain' = KeptByDelete(hasDomain)
    /\ pc' = StepAfter("clean")
    /\ log' = Append(log, "clean")
    /\ UNCHANGED << runs, cursor, batch, total_processed, schema, protNodes, domNodes,
                    projection, lastRows, math, viz, demo, history >>

\* clean_previous_data, second statement
CleanProjection ==
    /\ pc = "clean_gds"
    /\ projection' = DropIfExists(projection)
    /\ pc' = StepAfter("clean_gds")
    /\ log' = Append(log, "clean_gds")
    /\ UNCHANGED << runs, cursor, batch, total_processed, schema, protNodes, domNodes,
                    hasDomain, similar, lastRows, math, viz, demo, history >>

\* project_graph
Project ==
    /\ pc = "project"
    /\ ~ProjectionRefused(projection, protNodes, domNodes, hasDomain)
    /\ projection' = ProjectGraph(protNodes, hasDomain)
    /\ pc' = StepAfter("project")
    /\ log' = Append(log, "project")
    /\ UNCHANGED << runs, cursor, batch, total_processed, schema, protNodes, domNodes,
                    hasDomain, similar, lastRows, math, viz, demo, history >>

\* project_graph: the procedure raises, the finally block closes the driver
ProjectRaises ==
    /\ pc = "project"
    /\ ProjectionRefused(projection, protNodes, domNodes, hasDomain)
    /\ pc' = "failed"
    /\ UNCHANGED << runs, cursor, batch, total_processed, schema, protNodes, domNodes,
                    hasDomain, similar, projection, log, lastRows, math, viz, demo, history >>

\* run_gds_similarity(driver, threshold=MIN_JACCARD_WEIGHT)
Similarity ==
    /\ pc = "similarity"
    /\ projection.exists
    /\ similar' = run_gds_similarity(similar, projection, MIN_JACCARD_WEIGHT, runs)
    /\ pc' = StepAfter("similarity")
    /\ log' = Append(log, "similarity")
    /\ UNCHANGED << runs, cursor, batch, total_processed, schema, protNodes, domNodes,
                    hasDomain, projection, lastRows, math, viz, demo, history >>

\* drop_graph_projection
DropProjection ==
    /\ pc = "drop"
    /\ projection.exists
    /\ projection' = NoProjection
    /\ pc' = StepAfter("drop")
    /\ log' = Append(log, "drop")
    /\ UNCHANGED << runs, cursor, batch, total_processed, schema, protNodes, domNodes,
                    hasDomain, similar, lastRows, math, viz, demo, history >>

\* precalculate_domain_counts
DomainCounts ==
    /\ pc = "counts"
    /\ protNodes' = precalculate_domain_counts(protNodes, hasDomain)
    /\ pc' = StepAfter("counts")
    /\ log' = Append(log, "counts")
    /\ UNCHANGED << runs, cursor, batch, total_processed, schema, domNodes,
                    hasDomain, similar, projection, lastRows, math, viz, demo, history >>

\* calculate_shared_union_domains_math, then the finally block of __main__
Enrich ==
    /\ pc = "enrich"
    /\ similar' = calculate_shared_union_domains_math(similar, protNodes)
    /\ pc' = StepAfter("enrich")
    /\ log' = Append(log, "enrich")
    /\ builds' = Append(builds, [g |-> Graph(protNodes, domNodes, hasDomain),
                                 edges |-> Stored(similar')])
    /\ UNCHANGED << runs, cursor, batch, total_processed, schema, protNodes, domNodes,
                    hasDomain, projection, lastRows, math, viz, demo, applied, reapplied,
                    interrupted, sourceDocs, batches >>

\* a statement raises (store unreachable): the exception leaves __main__
\* through the finally block, what was committed stays in the store
Fail ==
    /\ pc \notin Stopped
    /\ pc' = "failed"
    /\ interrupted' = interrupted \cup {pc}
    /\ UNCHANGED << runs, cursor, batch, total_processed, schema, protNodes, domNodes,
                    hasDomain, similar, projection, log, lastRows, math, viz, demo,
                    builds, applied, reapplied, sourceDocs, batches >>

Next ==
    \/ Start
    \/ EnsureConstraints
    \/ SkipDoc
    \/ AppendDoc
    \/ AppendAndFlush
    \/ FinalFlush
    \/ ImportFinished
    \/ ImportBatchRaises
    \/ CleanRelationships
    \/ CleanProjection
    \/ Project
    \/ ProjectRaises
    \/ Similarity
    \/ DropProjection
    \/ DomainCounts
    \/ Enrich
    \/ Fail

Spec == Init /\ [][Next]_vars

\* --------------------------------------- weight-to-count reconstruction alone
InitMath ==
    /\ pc = "idle"
    /\ runs = 0
    /\ cursor = <<>>
    /\ batch = <<>>
    /\ total_processed = 0
    /\ schema = {}
    /\ protNodes = <<>>
    /\ domNodes = <<>>
    /\ hasDomain = EmptyBag
    /\ similar = EmptyBag
    /\ projection = NoProjection
    /\ log = <<>>
    /\ lastRows = <<>>
    /\ viz = VizIdle
    /\ demo = DemoIdle
    /\ builds = <<>>
    /\ applied = {}
    /\ reapplied = FALSE
    /\ interrupted = {}
    /\ sourceDocs = <<>>
    /\ batches = <<>>
    /\ \E a \in 1..MaxCount, b \in 1..MaxCount :
         \E i \in 1..(IF a < b THEN a ELSE b) :
            math = [MathIdle EXCEPT !.phase = "counts", !.A = a, !.B = b, !.I = i]

\* the similarity engine stores J = I / (A + B - I) as jaccard_weight
StoreWeight ==
    /\ math.phase = "counts"
    /\ math' = [math EXCEPT !.phase = "weight",
                            !.J = Quant(math.I, math.A + math.B - math.I)]
    /\ UNCHANGED << pc, runs, cursor, batch, total_processed, schema, protNodes,
                    domNodes, hasDomain, similar, projection, log, lastRows, viz, demo,
                    history >>

\* calculate_shared_union_domains_math on that edge
ReconstructCounts ==
    /\ math.phase = "weight"
    /\ LET c == Reconstruct(math.J, math.A, math.B)
       IN math' = [math EXCEPT !.phase = "filled", !.shared = c.shared,
                               !.union = c.union]
    /\ UNCHANGED << pc, runs, cursor, batch, total_processed, schema, protNodes,
                    domNodes, hasDomain, similar, projection, log, lastRows, viz, demo,
                    history >>

NextMath == StoreWeight \/ ReconstructCounts

SpecMath == InitMath /\ [][NextMath]_vars

\* ------------------------------------------------- neighbourhood export
\* most SIMILAR relationships in a store the exporter is asked about
MaxRels == 4

\* the proteins of that store: 21, 22 and 24 have the domain 31 alone, 23 has
\* 31 and 32, so J = 1 between two of 21, 22, 24 and J = 1/2 with 23
ExportCollection ==
    << Doc(21, 21, 1, <<31>>), Doc(22, 22, 1, <<31>>),
       Doc(23, 23, 1, <<31, 32>>), Doc(24, 24, 1, <<31>>) >>

\* the nodes and HAS_DOMAIN relationships the import makes of them
ExportGraph ==
    import_batch(Graph(<<>>, <<>>, EmptyBag),
                 [i \in 1..Len(ExportCollection) |-> Row(ExportCollection[i])])

ExportNodes == precalculate_domain_counts(ExportGraph.p, ExportGraph.h)

\* ways a pair of proteins is found stored: not at all, in one direction, in
\* the other, in both, or twice in the same direction
Storages == {"none", "fwd", "bwd", "both", "twice"}

ExportPairs == {pr \in (1..Len(ExportNodes)) \X (1..Len(ExportNodes)) : pr[1] < pr[2]}

\* number of relationships i -> j in a layout
CopiesOf(layout, i, j) ==
    IF i < j
    THEN CASE layout[<<i, j>>] \in {"fwd", "both"} -> 1
           [] layout[<<i, j>>] = "twice" -> 2
           [] OTHER -> 0
    ELSE IF layout[<<j, i>>] \in {"bwd", "both"} THEN 1 ELSE 0

\* the SIMILAR relationship i -> j as the rebuild writes and fills it
SimilarEdge(i, j) ==
    LET v == ProjectGraph(ExportNodes, ExportGraph.h).vectors
        c == Reconstruct(Jaccard(v[i], v[j]), ExportNodes[i].domain_count,
                         ExportNodes[j].domain_count)
    IN [src |-> i, dst |-> j, jaccard_weight |-> Jaccard(v[i], v[j]),
        shared_domains |-> c.shared, union_domains |-> c.union, written_in |-> 1]

\* the bag of SIMILAR relationships of a layout
SimilarOf(layout) ==
    LET present == {pr \in (1..Len(ExportNodes)) \X (1..Len(ExportNodes)) :
                      pr[1] # pr[2] /\ CopiesOf(layout, pr[1], pr[2]) > 0}
        edges == {SimilarEdge(pr[1], pr[2]) : pr \in present}
    IN [e \in edges |-> CopiesOf(layout, e.src, e.dst)]

ExportStores ==
    {sim \in {SimilarOf(layout) : layout \in [ExportPairs -> Storages]} :
       BagCardinality(sim) <= MaxRels}

\* the ids a neighbourhood is asked for: every protein, and an id no protein has
CenterIds == {ExportNodes[i].uniprot_id : i \in 1..Len(ExportNodes)} \cup {9}

\* the orders in which the store may return the elements of a bag
RECURSIVE Orders(_)
Orders(B) ==
    IF BagToSet(B) = {} THEN {<<>>}
    ELSE UNION {{<<e>> \o s : s \in Orders(B (-) SetToBag({e}))} : e \in BagToSet(B)}

\* r {.*, source: startNode(r).uniprot_id, target: endNode(r).uniprot_id, type: type(r)}
SimilarMap(p, r) ==
    [type |-> "SIMILAR", source |-> p[r.src].uniprot_id, target |-> p[r.dst].uniprot_id,
     jaccard_weight |-> r.jaccard_weight, shared_domains |-> r.shared_domains,
     union_domains |-> r.union_domains]

\* r_dom {.*, source: p.uniprot_id, target: d.interpro_id, type: type(r_dom)}
DomainMap(p, d, pr) ==
    [type |-> "HAS_DOMAIN", source |-> p[pr[1]].uniprot_id, target |-> d[pr[2]]]

\* variant: the HAS_DOMAIN relationships of every protein are matched
DomainRelsOfAll(h, c) == BagToSet(h)

\* (p)-[r_dom:HAS_DOMAIN]->(d:Domain): the relationships that leave the center
DomainRels(h, c) == {q \in BagToSet(h) : q[1] = c}

Touches(r, i) == r.src = i \/ r.dst = i

OtherEnd(r, i) == IF r.src = i THEN r.dst ELSE r.src

\* the SIMILAR relationships that (p)-[r:SIMILAR]-(neighbor) matches
Around(sim, i) == {r \in BagToSet(sim) : Touches(r, i)}

\* copies of the elements of S in the bag B
Restrict(B, S) == [e \in S \cap BagToSet(B) |-> B[e]]

\* collect(DISTINCT r {...}) of the depth-1 query: equal maps are collected once
Depth1Rels(p, sim, c) == SetToBag({SimilarMap(p, r) : r \in Around(sim, c)})

\* the relationships on the paths (p)-[:SIMILAR*1..2]-(neighbor): those that
\* touch the center or a node one relationship away from it, each once
Depth2Paths(sim, c) ==
    LET near == {OtherEnd(r, c) : r \in Around(sim, c)}
    IN Restrict(sim, Around(sim, c) \cup UNION {Around(sim, a) : a \in near})

Depth2Rels(p, sim, c) ==
    LET paths == Depth2Paths(sim, c)
    IN BagImage(paths, [r \in BagToSet(paths) |-> SimilarMap(p, r)])

\* the answer for an unknown center and for a store failure: {}
NoData == <<>>

\* the dictionaries get_protein_neighborhood can return when the query runs:
\* the store returns collected lists in an order of its own
get_protein_neighborhood(p, d, h, sim, protein_id, depth) ==
    IF MatchProtein(p, protein_id) = {} THEN {NoData}
    ELSE LET c == CHOOSE i \in MatchProtein(p, protein_id) : TRUE
             rels == IF depth = 1 THEN Depth1Rels(p, sim, c) ELSE Depth2Rels(p, sim, c)
             found == IF depth = 1 THEN Around(sim, c)
                      ELSE BagToSet(Depth2Paths(sim, c))
             nodes == UNION {{r.src, r.dst} : r \in found}
             dom_rels == SetToBag({DomainMap(p, d, pr) : pr \in DomainRels(h, c)})
         IN { [center_protein |-> p[c],
               neighbors |-> {p[n] : n \in {m \in nodes : p[m].uniprot_id # protein_id}},
               relationships |-> r \o r_dom,
               domains |-> {d[j] : j \in Targets(h, c)},
               depth |-> depth] : r \in Orders(rels), r_dom \in Orders(dom_rels) }

\* variant: a failure of the store is reported as a center with nothing around it
CaughtAsLonelyCenter ==
    [center_protein |-> [uniprot_id |-> Null], neighbors |-> {}, relationships |-> <<>>,
     domains |-> {}, depth |-> 0]

\* `except Exception as e: ... return {}`
Caught == NoData

\* `if not data`
Falsy(data) == DOMAIN data = {}

\* variant: an unknown center still gets a node, with nothing around it
NoElementsButCenter ==
    [nodes |-> {[id |-> Null, label |-> Null, type |-> "center"]}, edges |-> <<>>]

\* the empty list of elements
NoElements == [nodes |-> {}, edges |-> <<>>]

\* variant: only the relationships that leave the center are looked at
Tier1IdsOutgoingOnly(rels, center_id) ==
    {rels[k].target : k \in {n \in 1..Len(rels) : rels[n].type = "SIMILAR"
                                                  /\ rels[n].source = center_id}}

\* tier1_ids: the other end of every SIMILAR relationship that touches the center
Tier1Ids(rels, center_id) ==
    {rels[k].target : k \in {n \in 1..Len(rels) : rels[n].type = "SIMILAR"
                                                  /\ rels[n].source = center_id}}
    \cup {rels[k].source : k \in {n \in 1..Len(rels) : rels[n].type = "SIMILAR"
                                                       /\ rels[n].source # center_id
                                                       /\ rels[n].target = center_id}}

\* f"dom_{did}": a node id no protein has
DomNodeId(did) == 0 - did

\* variant: every neighbour is typed as a direct one
NodeElementsOneTier(data, tier1_ids) ==
    LET center_id == data.center_protein.uniprot_id
    IN {[id |-> center_id, label |-> center_id, type |-> "center"]}
       \cup {[id |-> n.uniprot_id, label |-> n.uniprot_id, type |-> "neighbor_d1"] :
             n \in {m \in data.neighbors : m.uniprot_id # center_id}}
       \cup {[id |-> DomNodeId(did), label |-> did, type |-> "domain"] : did \in data.domains}

\* the node elements: the center, the neighbours typed by tier, the domains
\* (their order in the list, which is the store's, is not kept)
NodeElements(data, tier1_ids) ==
    LET center_id == data.center_protein.uniprot_id
    IN {[id |-> center_id, label |-> center_id, type |-> "center"]}
       \cup {[id |-> n.uniprot_id, label |-> n.uniprot_id,
              type |-> IF n.uniprot_id \in tier1_ids THEN "neighbor_d1" ELSE "neighbor_d2"] :
             n \in {m \in data.neighbors : m.uniprot_id # center_id}}
       \cup {[id |-> DomNodeId(did), label |-> did, type |-> "domain"] : did \in data.domains}

\* rel.get("jaccard_weight", 0)
WeightOf(rel) == IF "jaccard_weight" \in DOMAIN rel THEN rel.jaccard_weight ELSE 0

\* d2_node_id: the end of the relationship that is neither tier 1 nor the center
D2Node(rel, center_id, tier1_ids) ==
    IF rel.source \notin tier1_ids /\ rel.source # center_id THEN rel.source
    ELSE IF rel.target \notin tier1_ids /\ rel.target # center_id THEN rel.target
    ELSE Null

\* position of d2 in best_d2_links (a dict keeps its keys in insertion order), 0 if absent
SlotOf(best, d2) ==
    IF \E k \in 1..Len(best) : best[k].d2 = d2
    THEN CHOOSE k \in 1..Len(best) : best[k].d2 = d2
    ELSE 0

\* variant: the first link found for a tier-2 node is never replaced
IsBetterNever(weight, best_weight) == FALSE

\* weight > best_d2_links[d2_node_id]["weight"]
IsBetter(weight, best_weight) == weight > best_weight

\* variant: every SIMILAR relationship retrieved is kept
KeepEdgeEverySimilar(acc, rel, center_id, tier1_ids) ==
    IF rel.type \in {"HAS_DOMAIN", "SIMILAR"} THEN [acc EXCEPT !.final = Append(@, rel)]
    ELSE acc

\* one turn of the loop over data["relationships"]
KeepEdge(acc, rel, center_id, tier1_ids) ==
    IF rel.type = "HAS_DOMAIN" THEN [acc EXCEPT !.final = Append(@, rel)]
    ELSE IF rel.type # "SIMILAR" THEN acc
    ELSE IF rel.source = center_id \/ rel.target = center_id
         THEN [acc EXCEPT !.final = Append(@, rel)]
    ELSE IF rel.source \in tier1_ids /\ rel.target \in tier1_ids THEN acc
    ELSE LET d2 == D2Node(rel, center_id, tier1_ids)
             k == SlotOf(acc.best, d2)
             link == [d2 |-> d2, weight |-> WeightOf(rel), rel |-> rel]
         IN IF d2 = Null THEN acc
            ELSE IF k = 0 THEN [acc EXCEPT !.best = Append(@, link)]
            ELSE IF IsBetter(WeightOf(rel), acc.best[k].weight)
                 THEN [acc EXCEPT !.best[k] = link]
            ELSE acc

\* final_edges: the loop over the relationships, then best_d2_links.values()
RECURSIVE KeepEdges(_, _, _, _)
KeepEdges(acc, rels, center_id, tier1_ids) ==
    IF rels = <<>> THEN acc.final \o [k \in 1..Len(acc.best) |-> acc.best[k].rel]
    ELSE KeepEdges(KeepEdge(acc, Head(rels), center_id, tier1_ids), Tail(rels),
                   center_id, tier1_ids)

\* sorted([original_source, original_target])
SortedPair(a, b) == IF a <= b THEN <<a, b>> ELSE <<b, a>>

\* variant: the stored direction is kept
OrientedAsStored(rel, center_id, tier1_ids) == <<rel.source, rel.target>>

\* Centre -> D1 -> D2
Oriented(rel, center_id, tier1_ids) ==
    IF rel.target = center_id THEN <<center_id, rel.source>>
    ELSE IF rel.source = center_id THEN <<center_id, rel.target>>
    ELSE IF rel.source \in tier1_ids THEN <<rel.source, rel.target>>
    ELSE IF rel.target \in tier1_ids THEN <<rel.target, rel.source>>
    ELSE <<rel.source, rel.target>>

\* round(rel["jaccard_weight"], 2), in hundredths
Rounded(w) == RoundDiv(w * 100, WeightScale)

\* variant: no key is ever taken as added
AlreadyAddedNever(edge_key, added_edges_keys) == FALSE

\* edge_key in added_edges_keys
AlreadyAdded(edge_key, added_edges_keys) == edge_key \in added_edges_keys

\* variant: the edge id does not depend on the position in final_edges
EdgeDataSameId(i, source, target, rel) ==
    IF "jaccard_weight" \in DOMAIN rel
    THEN [id |-> 0, source |-> source, target |-> target, type |-> rel.type,
          weight |-> Rounded(rel.jaccard_weight)]
    ELSE [id |-> 0, source |-> source, target |-> target, type |-> rel.type]

\* edge_data, with the weight when the relationship carries one
EdgeData(i, source, target, rel) ==
    IF "jaccard_weight" \in DOMAIN rel
    THEN [id |-> i, source |-> source, target |-> target, type |-> rel.type,
          weight |-> Rounded(rel.jaccard_weight)]
    ELSE [id |-> i, source |-> source, target |-> target, type |-> rel.type]

\* one turn of the loop over final_edges, i counted from 0
EmitEdge(acc, i, rel, center_id, tier1_ids) ==
    IF rel.type = "HAS_DOMAIN"
    THEN [acc EXCEPT !.edges = Append(@, EdgeData(i, rel.source, DomNodeId(rel.target), rel))]
    ELSE IF rel.type # "SIMILAR"
    THEN [acc EXCEPT !.edges = Append(@, EdgeData(i, rel.source, rel.target, rel))]
    ELSE IF AlreadyAdded(SortedPair(rel.source, rel.target), acc.keys) THEN acc
    ELSE LET st == Oriented(rel, center_id, tier1_ids)
         IN [edges |-> Append(acc.edges, EdgeData(i, st[1], st[2], rel)),
             keys |-> acc.keys \cup {SortedPair(rel.source, rel.target)}]

RECURSIVE EmitEdges(_, _, _, _, _)
EmitEdges(acc, i, final, center_id, tier1_ids) ==
    IF i >= Len(final) THEN acc.edges
    ELSE EmitEdges(EmitEdge(acc, i, final[i + 1], center_id, tier1_ids), i + 1, final,
                   center_id, tier1_ids)

\* export_neighborhood_for_visualization on the dictionary it got
ElementsOf(data) ==
    IF Falsy(data) THEN NoElements
    ELSE LET center_id == data.center_protein.uniprot_id
             tier1_ids == Tier1Ids(data.relationships, center_id)
             final == KeepEdges([final |-> <<>>, best |-> <<>>], data.relationships,
                                center_id, tier1_ids)
         IN [nodes |-> NodeElements(data, tier1_ids),
             edges |-> EmitEdges([edges |-> <<>>, keys |-> {}], 0, final,
                                 center_id, tier1_ids)]

\* a store as the exporter finds it, and no request yet
InitExport ==
    /\ pc = "done"
    /\ runs = 1
    /\ cursor = <<>>
    /\ batch = <<>>
    /\ total_processed = Len(ExportCollection)
    /\ schema = RequiredSchema
    /\ protNodes = ExportNodes
    /\ domNodes = ExportGraph.d
    /\ hasDomain = ExportGraph.h
    /\ similar \in ExportStores
    /\ projection = NoProjection
    /\ log = <<>>
    /\ lastRows = <<>>
    /\ math = MathIdle
    /\ viz = VizIdle
    /\ demo = DemoIdle
    /\ builds = <<>>
    /\ applied = {}
    /\ reapplied = FALSE
    /\ interrupted = {}
    /\ sourceDocs = <<>>
    /\ batches = <<>>

\* export_neighborhood_for_visualization(protein_id, depth): the query runs in
\* one transaction, or raises, in which case get_protein_neighborhood returns {}
ExportNeighborhood ==
    /\ viz.phase = "off"
    /\ \E protein_id \in CenterIds, depth \in {1, 2}, raised \in BOOLEAN :
         \E data \in IF raised THEN {Caught}
                     ELSE get_protein_neighborhood(protNodes, domNodes, hasDomain,
                                                   similar, protein_id, depth) :
            viz' = [phase |-> "exported", at |-> pc, center |-> protein_id, depth |-> depth,
                    raised |-> raised, data |-> data, elements |-> ElementsOf(data)]
    /\ UNCHANGED << pc, runs, cursor, batch, total_processed, schema, protNodes,
                    domNodes, hasDomain, similar, projection, log, lastRows, math,
                    demo, history >>

NextExport == ExportNeighborhood

SpecExport == InitExport /\ [][NextExport]_vars

\* ---------------------------------------- a neighbourhood read during a rebuild
\* the source of the runs the read meets: the first three proteins above
ReadCollection == SubSeq(ExportCollection, 1, 3)

ReadRows == [i \in 1..Len(ReadCollection) |-> Row(ReadCollection[i])]

\* the batches the import loop makes of a sequence of rows
RECURSIVE Chunks(_)
Chunks(rows) ==
    IF rows = <<>> THEN <<>>
    ELSE IF Len(rows) <= BatchSize THEN <<rows>>
    ELSE <<SubSeq(rows, 1, BatchSize)>> \o Chunks(SubSeq(rows, BatchSize + 1, Len(rows)))

\* the store after one complete run on that source
ReadGraph == import_batch(Graph(<<>>, <<>>, EmptyBag), ReadRows)

ReadNodes == precalculate_domain_counts(ReadGraph.p, ReadGraph.h)

ReadSimilar ==
    calculate_shared_union_domains_math(
        run_gds_similarity(EmptyBag, ProjectGraph(ReadGraph.p, ReadGraph.h),
                           MIN_JACCARD_WEIGHT, 1),
        ReadNodes)

\* a second run on the same source has imported again and is about to rebuild;
\* no neighbourhood has been asked for yet
InitRead ==
    /\ pc = "clean"
    /\ runs = 2
    /\ cursor = <<>>
    /\ batch = IF Len(ReadRows) % BatchSize = 0 THEN <<>>
               ELSE Chunks(ReadRows)[Len(Chunks(ReadRows))]
    /\ total_processed = Len(ReadRows)
    /\ schema = RequiredSchema
    /\ protNodes = ReadNodes
    /\ domNodes = ReadGraph.d
    /\ hasDomain = ReadGraph.h
    /\ similar = ReadSimilar
    /\ projection = NoProjection
    /\ log = <<"constraints">> \o [k \in 1..Len(Chunks(ReadRows)) |-> "import_batch"]
                \o <<"import">>
    /\ lastRows = Chunks(ReadRows)[Len(Chunks(ReadRows))]
    /\ math = MathIdle
    /\ viz = VizIdle
    /\ demo = DemoIdle
    /\ builds = << [g |-> Graph(ReadNodes, ReadGraph.d, ReadGraph.h),
                    edges |-> Stored(ReadSimilar)] >>
    /\ applied = Range(Chunks(ReadRows))
    /\ reapplied = TRUE
    /\ interrupted = {}
    /\ sourceDocs = ReadCollection
    /\ batches = Chunks(ReadRows)

\* the steps of the rebuild, and a request that comes at any moment
NextRead ==
    \/ CleanRelationships
    \/ CleanProjection
    \/ Project
    \/ Similarity
    \/ DropProjection
    \/ DomainCounts
    \/ Enrich
    \/ ExportNeighborhood

SpecRead == InitRead /\ [][NextRead]_vars

\* ------------------------------------------------------------ the combined demo
\* how a manager's connect() ends: it returns; it raises before the client or
\* driver object exists; it raises at the test command, the object being there
ConnectOutcomes == {"ok", "raises_unopened", "raises_opened"}

\* self.client / self.driver after connect()
Handle(outcome) == IF outcome = "raises_unopened" THEN "none" ELSE "open"

\* connect_databases: the Neo4j manager is connected only after the MongoDB one,
\* and the flag is set only after both
connect_databases(d, mongo, neo4j) ==
    IF mongo # "ok" THEN [d EXCEPT !.client = Handle(mongo)]
    ELSE IF neo4j # "ok" THEN [d EXCEPT !.client = "open", !.driver = Handle(neo4j)]
    ELSE [d EXCEPT !.client = "open", !.driver = "open", !.connected = TRUE]

\* a manager's disconnect(): `if self.client: self.client.close()`
disconnect(handle) == IF handle = "none" THEN "none" ELSE "closed"

\* disconnect_databases: nothing unless the flag is set
disconnect_databases(d) ==
    IF d.connected
    THEN [d EXCEPT !.client = disconnect(@), !.driver = disconnect(@), !.connected = FALSE]
    ELSE d

\* the demonstrations main runs in order: the statistics, the searches, the graph
\* queries, then the comparison and the visualization data of one protein
LastStep == 5

InitDemo ==
    /\ InitExport
    /\ similar = EmptyBag

\* the demo reads the stores and writes nothing to them
DemoFrame ==
    UNCHANGED << pc, runs, cursor, batch, total_processed, schema, protNodes, domNodes,
                 hasDomain, similar, projection, log, lastRows, math, viz, history >>

\* main: the protein id of the command line, if any, and a new demo object
Main ==
    /\ demo.pc = "off"
    /\ \E protein_id \in CenterIds \cup {Null} :
         demo' = [demo EXCEPT !.pc = "connect", !.protein_id = protein_id]
    /\ DemoFrame

\* `if not demo.connect_databases(): ... return`, which goes through `finally`
ConnectDatabases ==
    /\ demo.pc = "connect"
    /\ \E mongo \in ConnectOutcomes, neo4j \in ConnectOutcomes :
         LET d == connect_databases(demo, mongo, neo4j)
         IN demo' = [d EXCEPT !.pc = IF d.connected THEN "steps" ELSE "finally",
                              !.step = IF d.connected THEN 1 ELSE 0]
    /\ DemoFrame

\* one demonstration returns
DemoStep ==
    /\ demo.pc = "steps"
    /\ demo' = IF demo.step = 3 /\ demo.protein_id = Null
               THEN [demo EXCEPT !.pc = "sample"]
               ELSE IF demo.step = LastStep THEN [demo EXCEPT !.pc = "finally"]
               ELSE [demo EXCEPT !.step = @ + 1]
    /\ DemoFrame

\* MATCH (p:Protein) RETURN p.uniprot_id LIMIT 1: any protein, or no record
SampleProtein ==
    /\ demo.pc = "sample"
    /\ IF protNodes = <<>> THEN demo' = [demo EXCEPT !.pc = "finally"]
       ELSE \E i \in 1..Len(protNodes) :
              demo' = [demo EXCEPT !.pc = "steps", !.step = 4,
                                   !.sample_id = protNodes[i].uniprot_id]
    /\ DemoFrame

\* an exception or a KeyboardInterrupt leaves the `try` for its handler
DemoStepRaises ==
    /\ demo.pc \in {"steps", "sample"}
    /\ demo' = [demo EXCEPT !.pc = "finally"]
    /\ DemoFrame

\* `finally: demo.disconnect_databases()`, then main returns
DisconnectDatabases ==
    /\ demo.pc = "finally"
    /\ demo' = [disconnect_databases(demo) EXCEPT !.pc = "returned"]
    /\ DemoFrame

NextDemo ==
    \/ Main
    \/ ConnectDatabases
    \/ DemoStep
    \/ SampleProtein
    \/ DemoStepRaises
    \/ DisconnectDatabases

SpecDemo == InitDemo /\ [][NextDemo]_vars

\* ---------------------------------------------------------------- properties
Edges == BagToSet(similar)

\* the interpro ids of the domains of Protein node i, read from the store
DomainIds(i) == {domNodes[j] : j \in Targets(hasDomain, i)}

SharesDomain(i, j) == DomainIds(i) \cap DomainIds(j) # {}

\* |shared| / |union| >= 1/10, in exact arithmetic
JaccardAtLeastThreshold(i, j) ==
    10 * Cardinality(DomainIds(i) \cap DomainIds(j))
        >= Cardinality(DomainIds(i) \cup DomainIds(j))

Linked(i, j) == \E e \in Edges : {e.src, e.dst} = {i, j}

ProteinPairs == {pr \in (1..Len(protNodes)) \X (1..Len(protNodes)) : pr[1] < pr[2]}

\* C1: when build_similarity_edges_gds_math has completed, no SIMILAR
\* relationship has a jaccard_weight below MIN_JACCARD_WEIGHT.
C1_NoEdgeBelowThreshold ==
    pc = "done" => \A e \in Edges : e.jaccard_weight >= MIN_JACCARD_WEIGHT

\* a completed rebuild that wrote edges and left out a pair that shares a
\* domain with a Jaccard coefficient under the threshold
C1_Witness ==
    /\ pc = "done"
    /\ Edges # {}
    /\ \E pr \in ProteinPairs :
          /\ SharesDomain(pr[1], pr[2])
          /\ ~JaccardAtLeastThreshold(pr[1], pr[2])
          /\ ~Linked(pr[1], pr[2])

\* C2: after a complete rebuild there is at most one SIMILAR relationship per
\* unordered pair of proteins (never A->B together with B->A) and no
\* SIMILAR relationship from a protein to itself.
C2_OneEdgePerUnorderedPair ==
    pc = "done" =>
        /\ \A e \in Edges : e.src # e.dst /\ CopiesIn(e, similar) = 1
        /\ \A e, f \in Edges : {e.src, e.dst} = {f.src, f.dst} => e = f

\* C3: after a complete rebuild every pair of distinct proteins that shares a
\* domain and whose Jaccard coefficient is at least the threshold (equality
\* included) has a SIMILAR relationship, and a pair sharing no domain has none.
C3_EveryQualifyingPairLinked ==
    pc = "done" =>
        \A pr \in ProteinPairs :
            /\ (SharesDomain(pr[1], pr[2]) /\ JaccardAtLeastThreshold(pr[1], pr[2]))
                  => Linked(pr[1], pr[2])
            /\ ~SharesDomain(pr[1], pr[2]) => ~Linked(pr[1], pr[2])

\* C4: two rebuilds in a row on the same Protein / Domain / HAS_DOMAIN data leave
\* the same SIMILAR relationships: same pairs, same jaccard_weight, same
\* shared_domains and union_domains.
C4_RebuildIdempotent ==
    \A k \in 1..(Len(builds) - 1) :
        builds[k].g = builds[k + 1].g => builds[k].edges = builds[k + 1].edges

\* a second rebuild has completed on unchanged data and there are edges,
\* among them two equal scores of one node (a tie the top K has to order)
C4_Witness ==
    /\ pc = "done"
    /\ Len(builds) >= 2
    /\ builds[Len(builds) - 1].g = builds[Len(builds)].g
    /\ builds[Len(builds)].g = Graph(protNodes, domNodes, hasDomain)
    /\ \E e, f \in Edges :
          e.src = f.src /\ e.dst # f.dst /\ e.jaccard_weight = f.jaccard_weight

\* C5: when the rebuild has completed, every SIMILAR relationship has
\* shared_domains >= 0, union_domains >= shared_domains and union_domains =
\* domain_count(A) + domain_count(B) - shared_domains for the stored
\* domain_count of its two endpoints.
C5_CountsConsistent ==
    pc = "done" =>
        \A e \in Edges :
            /\ e.shared_domains >= 0
            /\ e.union_domains >= e.shared_domains
            /\ e.union_domains = protNodes[e.src].domain_count
                                   + protNodes[e.dst].domain_count - e.shared_domains

\* a completed rebuild with an edge between proteins of different domain counts
C5_Witness ==
    /\ pc = "done"
    /\ \E e \in Edges :
          /\ protNodes[e.src].domain_count # protNodes[e.dst].domain_count
          /\ e.shared_domains >= 1

\* C6: for domain counts A, B >= 1 and a true shared count I in 1..min(A, B),
\* the reconstruction from J = I / (A + B - I) returns I as the intersection
\* and A + B - I as the union.
C6_ReconstructionRecoversCounts ==
    math.phase = "filled" =>
        /\ math.shared = math.I
        /\ math.union = math.A + math.B - math.I

\* the example A = 10, B = 8, shared = 4, union = 14
C6_Witness ==
    /\ math.phase = "filled"
    /\ math.A = 10 /\ math.B = 8 /\ math.I = 4
    /\ math.shared = 4 /\ math.union = 14

\* first and last position of a step in the log of the run, 0 when absent
FirstPos(step) ==
    IF step \in Range(log)
    THEN CHOOSE i \in 1..Len(log) : log[i] = step /\ \A k \in 1..(i - 1) : log[k] # step
    ELSE 0

LastPos(step) ==
    IF step \in Range(log)
    THEN CHOOSE i \in 1..Len(log) : log[i] = step /\ \A k \in (i + 1)..Len(log) : log[k] # step
    ELSE 0

\* every occurrence of step a completed before step b completed, both happened
Before(a, b) == FirstPos(a) > 0 /\ LastPos(a) < FirstPos(b)

C8_NoStaleEdge ==
    /\ pc \in {"clean_gds", "project", "similarity"} => similar = EmptyBag
    /\ pc = "done" => \A e \in Edges : e.written_in = runs

\* a later rebuild has completed, it wrote edges, and a pair that the previous
\* rebuild had linked is not linked any more
C8_Witness ==
    /\ pc = "done"
    /\ Len(builds) >= 2
    /\ Edges # {}
    /\ \E old \in BagToSet(builds[Len(builds) - 1].edges) : ~Linked(old.src, old.dst)

\* the latest row of the latest batch for a uniprot_id
LatestRow(uid) ==
    lastRows[CHOOSE i \in 1..Len(lastRows) :
                /\ lastRows[i].uniprot_id = uid
                /\ \A k \in (i + 1)..Len(lastRows) : lastRows[k].uniprot_id # uid]

\* C9: whatever import_batch calls have happened, there is at most one Protein
\* node per uniprot_id, one Domain node per interpro_id and one HAS_DOMAIN
\* relationship per (protein, domain), and a protein named by the latest
\* batch carries the entry_name of its latest row.
C9_MergeByKey ==
    /\ \A i, j \in 1..Len(protNodes) :
          protNodes[i].uniprot_id = protNodes[j].uniprot_id => i = j
    /\ \A i, j \in 1..Len(domNodes) : domNodes[i] = domNodes[j] => i = j
    /\ \A pr \in BagToSet(hasDomain) : CopiesIn(pr, hasDomain) = 1
    /\ \A i \in 1..Len(protNodes) :
          (\E k \in 1..Len(lastRows) : lastRows[k].uniprot_id = protNodes[i].uniprot_id)
              => protNodes[i].entry_name = LatestRow(protNodes[i].uniprot_id).entry_name

\* a rerun of the import has overwritten the entry_name of a protein that an
\* earlier run had created with its domains
C9_Witness ==
    /\ runs = 2
    /\ \E i \in 1..Len(protNodes) :
          /\ protNodes[i].entry_name = 2
          /\ Cardinality(DomainIds(i)) >= 5
          /\ \E k \in 1..Len(lastRows) : lastRows[k].uniprot_id = protNodes[i].uniprot_id

\* C10: import_batch applied once more with the rows of the latest batch leaves
\* the Protein nodes, the Domain nodes, the HAS_DOMAIN relationships and the
\* protein attributes as they are.
C10_RetryIsSafe ==
    lastRows # <<>> =>
        import_batch(Graph(protNodes, domNodes, hasDomain), lastRows)
            = Graph(protNodes, domNodes, hasDomain)

\* a batch with domains has been applied a second time, in a rerun after a
\* failed run
C10_Witness ==
    /\ reapplied
    /\ pc = "import"
    /\ \E k \in 1..Len(lastRows) : lastRows[k].interpro_ids # <<>>
    /\ builds = <<>>

\* the steps of build_similarity_edges_gds_math
RebuildSteps == {"clean", "clean_gds", "project", "similarity", "drop", "counts", "enrich"}

\* the SIMILAR relationships a rebuild that nothing interrupts leaves for the
\* Protein nodes and HAS_DOMAIN relationships now in the store
UninterruptedRebuild ==
    calculate_shared_union_domains_math(
        run_gds_similarity(EmptyBag, ProjectGraph(protNodes, hasDomain),
                           MIN_JACCARD_WEIGHT, runs),
        precalculate_domain_counts(protNodes, hasDomain))

\* C11: when a rebuild has been interrupted after one of its steps and the
\* script runs again, the projection step is not refused because of a
\* projection left in memory, and the run ends with the SIMILAR
\* relationships an uninterrupted rebuild produces.
C11_RerunAfterInterruption ==
    /\ pc = "project" => ~projection.exists
    /\ pc = "done" => similar = UninterruptedRebuild

\* a run was interrupted while the projection was in memory (after the
\* projection or after the write), and a later run has completed with edges
C11_Witness ==
    /\ pc = "done"
    /\ interrupted \cap {"similarity", "drop"} # {}
    /\ Edges # {}

\* identity and attributes of the Protein nodes, without domain_count
ProteinKeys(p) == [i \in 1..Len(p) |-> <<p[i].uniprot_id, p[i].entry_name>>]

\* a step taken inside the rebuild leaves the nodes and HAS_DOMAIN as they are
RebuildStepKeepsNodes ==
    (pc \in RebuildSteps) =>
        /\ ProteinKeys(protNodes') = ProteinKeys(protNodes)
        /\ domNodes' = domNodes
        /\ hasDomain' = hasDomain

\* C12: no step of the rebuild creates or deletes a Protein node, a Domain node
\* or a HAS_DOMAIN relationship; only SIMILAR relationships and domain_count
\* change.
C12_RebuildKeepsNodes == [][RebuildStepKeepsNodes]_vars

\* a completed rebuild that wrote SIMILAR relationships and set domain_count
C12_Witness ==
    /\ pc = "done"
    /\ Edges # {}
    /\ hasDomain # EmptyBag
    /\ \A i \in 1..Len(protNodes) : protNodes[i].domain_count # Null

\* ------------------------------------------------- counts and the source
\* the documents of the current source that name the protein uid
DocsOf(uid) == {k \in 1..Len(sourceDocs) : DocId(sourceDocs[k]) = uid}

\* the distinct ids of the interpro_ids lists the current source has for uid
ListedIds(uid) == UNION {Range(Row(sourceDocs[k]).interpro_ids) : k \in DocsOf(uid)}

\* the distinct ids of every row import_batch has been given for uid, in this
\* run and in the runs before
ImportedIds(uid) ==
    UNION {UNION {Range(b[k].interpro_ids) :
                    k \in {n \in 1..Len(b) : b[n].uniprot_id = uid}} : b \in applied}

CountsSet == pc \in {"enrich", "done"}

\* C21 as stated: once the counts are recomputed, the domain_count of a protein
\* of the source is the number of distinct ids of its interpro_ids list.
C21_CountIsListSize ==
    CountsSet =>
        \A i \in 1..Len(protNodes) :
            DocsOf(protNodes[i].uniprot_id) # {} =>
                protNodes[i].domain_count = Cardinality(ListedIds(protNodes[i].uniprot_id))

\* C21: once the counts are recomputed, the domain_count of every protein is
\* the number of distinct domain ids the imports have listed for it so far, an
\* id listed several times counting once and a protein without domain having
\* 0; for a protein first imported by this run that is the number of distinct
\* ids of its interpro_ids list.
C21_CountIsDistinctImported ==
    CountsSet =>
        \A i \in 1..Len(protNodes) :
            /\ protNodes[i].domain_count = Cardinality(ImportedIds(protNodes[i].uniprot_id))
            /\ (ImportedIds(protNodes[i].uniprot_id) = ListedIds(protNodes[i].uniprot_id))
                  => protNodes[i].domain_count
                       = Cardinality(ListedIds(protNodes[i].uniprot_id))

\* a protein whose list repeats an id and has lost ids since an earlier run,
\* beside a protein without any domain
C21_Witness ==
    /\ CountsSet
    /\ \E i \in 1..Len(protNodes) :
          /\ \E k \in DocsOf(protNodes[i].uniprot_id) :
                Len(sourceDocs[k].interpro_ids)
                  > Cardinality(Range(sourceDocs[k].interpro_ids))
          /\ protNodes[i].domain_count > Cardinality(ListedIds(protNodes[i].uniprot_id))
    /\ \E j \in 1..Len(protNodes) : protNodes[j].domain_count = 0

\* the rows of a sequence of batches, one after the other
RECURSIVE Flatten(_)
Flatten(bs) == IF bs = <<>> THEN <<>> ELSE Head(bs) \o Flatten(Tail(bs))

\* a document has a uniprot_id or an _id
HasId(doc) == doc.uniprot_id \notin {Null, 0} \/ doc._id \notin {Null, 0}

\* the ids of the documents that have one, in the order of the source
RECURSIVE IdsOf(_)
IdsOf(docs) ==
    IF docs = <<>> THEN <<>>
    ELSE (IF HasId(Head(docs))
          THEN <<IF Head(docs).uniprot_id \notin {Null, 0} THEN Head(docs).uniprot_id
                 ELSE Head(docs)._id>>
          ELSE <<>>) \o IdsOf(Tail(docs))

UidsOf(rows) == [k \in 1..Len(rows) |-> rows[k].uniprot_id]

\* the import of the current run has gone through the whole cursor
ImportDone == "import" \in Range(log)

\* C24: every document of the source that has a uniprot_id or an _id is passed
\* to import_batch exactly once, the others are skipped; a batch is passed as
\* soon as it holds BatchSize rows and what is left when the cursor is
\* exhausted is passed last, so that every batch holds 1..BatchSize rows;
\* total_processed is the number of rows passed.
C24_EveryDocumentOnce ==
    /\ pc = "import" =>
          /\ UidsOf(Flatten(batches) \o batch) \o IdsOf(cursor) = IdsOf(sourceDocs)
          /\ Len(batch) < BatchSize
    /\ pc \notin {"idle", "constraints"} =>
          /\ \A k \in 1..Len(batches) : Len(batches[k]) \in 1..BatchSize
          /\ \A k \in 1..(Len(batches) - 1) : Len(batches[k]) = BatchSize
          /\ total_processed = Len(Flatten(batches))
    /\ ImportDone => UidsOf(Flatten(batches)) = IdsOf(sourceDocs)

\* an import of several batches that has skipped a document
C24_Witness ==
    /\ ImportDone
    /\ Len(batches) >= 2
    /\ total_processed < Len(sourceDocs)
    /\ \E k \in 1..Len(sourceDocs) : sourceDocs[k].uniprot_id = Null /\ HasId(sourceDocs[k])

\* C25: in every rebuild, when calculate_shared_union_domains_math starts,
\* precalculate_domain_counts of the same run has set the domain_count of
\* every protein to its number of HAS_DOMAIN relationships, so that the counts
\* read for the two ends of a SIMILAR relationship are neither missing nor stale.
C25_CountsBeforeReconstruction ==
    pc = "enrich" =>
        /\ "counts" \in Range(log)
        /\ \A i \in 1..Len(protNodes) :
              /\ protNodes[i].domain_count # Null
              /\ protNodes[i].domain_count = OutDegree(hasDomain, i)

\* a second rebuild is about to fill the edges of a protein whose number of
\* domains has grown since the first
C25_Witness ==
    /\ pc = "enrich" /\ runs = 2 /\ Len(builds) = 1
    /\ \E e \in Edges :
          /\ e.src \in 1..Len(builds[1].g.p)
          /\ builds[1].g.p[e.src].domain_count # protNodes[e.src].domain_count

\* import_batch raises on the batch that is due, for the first time
BatchFails ==
    /\ pc = "import"
    /\ Raises(DueBatch)
    /\ "import_batch" \notin interrupted
    /\ "import_batch" \in interrupted'

\* the rows of the due batch that would not raise alone are in the store, and
\* the import goes on
RestOfBatchWritten ==
    /\ \A k \in 1..Len(DueBatch) :
          ~Raises(<<DueBatch[k]>>) => MatchProtein(protNodes', DueBatch[k].uniprot_id) # {}
    /\ pc' = "import"

\* C22: when rows of an import batch fail, the other rows of the batch are
\* written all the same and the job goes on with the following batches.
C22_FailureIsolated == [][BatchFails => RestOfBatchWritten]_vars

\* ------------------------------------------------ the export, against the store
\* a request that the store answered
Answered == viz.phase = "exported" /\ ~viz.raised

CenterExists == MatchProtein(protNodes, viz.center) # {}

CenterNode == CHOOSE i \in MatchProtein(protNodes, viz.center) : TRUE

\* nodes of the store one SIMILAR relationship away from the node i
Adjacent(i) == {OtherEnd(r, i) : r \in Around(similar, i)}

\* uniprot ids of the proteins one relationship away from the center
StoreTier1 == {protNodes[i].uniprot_id : i \in Adjacent(CenterNode)}

\* ... and of those two relationships away and no nearer
StoreTier2 ==
    {protNodes[i].uniprot_id : i \in UNION {Adjacent(a) : a \in Adjacent(CenterNode)}}
    \ (StoreTier1 \cup {viz.center})

\* the SIMILAR edges of the exported elements, and the ids of its nodes of a type
SimilarOut ==
    {viz.elements.edges[k] :
       k \in {n \in 1..Len(viz.elements.edges) : viz.elements.edges[n].type = "SIMILAR"}}

NodeIds(type) == {n.id : n \in {m \in viz.elements.nodes : m.type = type}}

\* number of SIMILAR edges in the exported list (equal edges counted apart)
NbSimilarOut ==
    Cardinality({n \in 1..Len(viz.elements.edges) : viz.elements.edges[n].type = "SIMILAR"})

\* the rebuild has deleted the SIMILAR relationships and not yet written the new ones
Window == {"clean_gds", "project", "similarity"}

\* C23: a neighbourhood read that comes during a rebuild, after the delete of
\* clean_previous_data and before run_gds_similarity has finished, finds the
\* center and no SIMILAR edge, whatever the center's neighbours before the
\* rebuild and after it.
C23_ReadInWindowSeesNoEdge ==
    (Answered /\ CenterExists /\ viz.at \in Window) =>
        /\ NodeIds("center") = {viz.center}
        /\ NodeIds("neighbor_d1") = {} /\ NodeIds("neighbor_d2") = {}
        /\ SimilarOut = {}

\* the rebuild is over: the center of a read made in the window had SIMILAR
\* neighbours after the rebuild before, and has them again
C23_Witness ==
    /\ pc = "done" /\ Len(builds) = 2
    /\ Answered /\ CenterExists /\ viz.at \in Window
    /\ SimilarOut = {}
    /\ \E e \in BagToSet(builds[1].edges) : CenterNode \in {e.src, e.dst}
    /\ \E e \in BagToSet(builds[2].edges) : CenterNode \in {e.src, e.dst}
    /\ Around(similar, CenterNode) # {}

\* C13: an unknown center id gives the empty result, without a center node; a
\* center that exists and has no SIMILAR neighbour gives its center node, no
\* neighbour node and no SIMILAR edge; the two results differ (requests the
\* store answered).
C13_NotFoundIsNotEmptyNeighbourhood ==
    Answered =>
        /\ ~CenterExists => (viz.elements.nodes = {} /\ viz.elements.edges = <<>>)
        /\ (CenterExists /\ Around(similar, CenterNode) = {}) =>
              /\ NodeIds("center") = {viz.center}
              /\ NodeIds("neighbor_d1") = {} /\ NodeIds("neighbor_d2") = {}
              /\ SimilarOut = {}
              /\ viz.elements.nodes # {}

C13_Witness ==
    /\ Answered /\ CenterExists
    /\ Around(similar, CenterNode) = {} /\ similar # EmptyBag

\* C14: at depth 1, a center with SIMILAR relationships to n distinct proteins
\* gets exactly n neighbor_d1 nodes and exactly n SIMILAR edges, each from the
\* center to one of them, and none between two of them, in whatever direction
\* the relationships are stored.
C14_DepthOneFan ==
    (Answered /\ CenterExists /\ viz.depth = 1) =>
        /\ NodeIds("neighbor_d1") = StoreTier1
        /\ NbSimilarOut = Cardinality(StoreTier1)
        /\ {e.target : e \in SimilarOut} = StoreTier1
        /\ \A e \in SimilarOut : e.source = viz.center
        /\ \A e \in SimilarOut : ~(e.source \in StoreTier1 /\ e.target \in StoreTier1)

C14_Witness ==
    /\ Answered /\ CenterExists /\ viz.depth = 1
    /\ Cardinality(StoreTier1) = 2
    /\ \E r \in Around(similar, CenterNode) :
          /\ r.dst = CenterNode
          /\ \A q \in Around(similar, CenterNode) : q.src = CenterNode => q.dst # r.src
    /\ \E r, q \in Around(similar, CenterNode) : r.src = q.dst /\ r.dst = q.src

\* the stored SIMILAR relationships between a tier-2 protein and tier-1 proteins
LinksInto(w) ==
    {r \in BagToSet(similar) :
       \/ protNodes[r.src].uniprot_id = w /\ protNodes[r.dst].uniprot_id \in StoreTier1
       \/ protNodes[r.dst].uniprot_id = w /\ protNodes[r.src].uniprot_id \in StoreTier1}

BestWeightInto(w) ==
    CHOOSE x \in {r.jaccard_weight : r \in LinksInto(w)} :
        \A r \in LinksInto(w) : r.jaccard_weight <= x

\* the tier-1 proteins joined to w by a relationship of the highest weight
BestTier1Of(w) ==
    {t \in StoreTier1 :
       \E r \in LinksInto(w) :
          /\ r.jaccard_weight = BestWeightInto(w)
          /\ t \in {protNodes[r.src].uniprot_id, protNodes[r.dst].uniprot_id}}

EdgesAt(w) == {e \in SimilarOut : e.source = w \/ e.target = w}

\* C15: at depth 2 every tier-2 node has exactly one SIMILAR edge in the output,
\* and it is a relationship of the highest jaccard_weight among those joining
\* the node to a tier-1 node.
C15_BestMatchOnly ==
    (Answered /\ CenterExists /\ viz.depth = 2) =>
        \A w \in StoreTier2 :
            /\ Cardinality({n \in 1..Len(viz.elements.edges) :
                               /\ viz.elements.edges[n].type = "SIMILAR"
                               /\ w \in {viz.elements.edges[n].source,
                                         viz.elements.edges[n].target}}) = 1
            /\ \A e \in EdgesAt(w) :
                  /\ e.weight = Rounded(BestWeightInto(w))
                  /\ {e.source, e.target} \ {w} \subseteq BestTier1Of(w)

\* a tier-2 node that two tier-1 nodes reach with different weights, the
\* relationship of the lower weight coming first in the store's answer
C15_Witness ==
    /\ Answered /\ CenterExists /\ viz.depth = 2
    /\ \E w \in StoreTier2 :
          /\ Cardinality(LinksInto(w)) >= 2
          /\ \E k, l \in 1..Len(viz.data.relationships) :
                /\ k < l
                /\ viz.data.relationships[k].type = "SIMILAR"
                /\ viz.data.relationships[l].type = "SIMILAR"
                /\ w \in {viz.data.relationships[k].source, viz.data.relationships[k].target}
                /\ w \in {viz.data.relationships[l].source, viz.data.relationships[l].target}
                /\ viz.data.relationships[k].jaccard_weight
                     < viz.data.relationships[l].jaccard_weight

\* the smallest id of a set of ids
Smallest(S) == CHOOSE x \in S : \A y \in S : x <= y

\* C16: when several tier-1 nodes reach a tier-2 node with the same highest
\* weight, the edge kept is the one of the tier-1 node with the smallest id, in
\* whatever order the store returned the relationships.
C16_TieGoesToSmallerId ==
    (Answered /\ CenterExists /\ viz.depth = 2) =>
        \A w \in StoreTier2 :
            Cardinality(BestTier1Of(w)) >= 2 =>
                \A e \in EdgesAt(w) : {e.source, e.target} \ {w} = {Smallest(BestTier1Of(w))}

\* C17: no SIMILAR edge of the output has both ends in tier 1; each joins the
\* center and a tier-1 node, or a tier-1 node and a tier-2 node.
C17_NoLateralEdge ==
    (Answered /\ CenterExists) =>
        \A e \in SimilarOut :
            /\ ~(e.source \in StoreTier1 /\ e.target \in StoreTier1)
            /\ \/ \E t \in StoreTier1 : {e.source, e.target} = {viz.center, t}
               \/ \E t \in StoreTier1, w \in StoreTier2 : {e.source, e.target} = {t, w}

\* two tier-1 nodes that a stored relationship joins, and a tier-2 node behind them
C17_Witness ==
    /\ Answered /\ CenterExists /\ viz.depth = 2
    /\ \E r \in BagToSet(similar) :
          /\ protNodes[r.src].uniprot_id \in StoreTier1
          /\ protNodes[r.dst].uniprot_id \in StoreTier1
    /\ StoreTier2 # {}

\* C18: the output has at most one SIMILAR edge for an unordered pair of
\* proteins, also when the relationships retrieved hold the pair several times
\* or in both directions.
C18_OneEdgePerPair ==
    Answered =>
        \A k, l \in 1..Len(viz.elements.edges) :
            (/\ k # l
             /\ viz.elements.edges[k].type = "SIMILAR"
             /\ viz.elements.edges[l].type = "SIMILAR")
            => {viz.elements.edges[k].source, viz.elements.edges[k].target}
                 # {viz.elements.edges[l].source, viz.elements.edges[l].target}

\* the answer of the store holds one relationship twice and a pair in both directions
C18_Witness ==
    /\ Answered /\ CenterExists
    /\ \E k, l \in 1..Len(viz.data.relationships) :
          k # l /\ viz.data.relationships[k] = viz.data.relationships[l]
    /\ \E k, l \in 1..Len(viz.data.relationships) :
          /\ viz.data.relationships[k].type = "SIMILAR"
          /\ viz.data.relationships[l].type = "SIMILAR"
          /\ viz.data.relationships[k].source = viz.data.relationships[l].target
          /\ viz.data.relationships[k].target = viz.data.relationships[l].source

\* C19: every SIMILAR edge of the output points away from the center, whatever
\* its stored direction: from the center to a tier-1 node, or from a tier-1
\* node to a tier-2 node.
C19_OrientedOutward ==
    (Answered /\ CenterExists) =>
        \A e \in SimilarOut :
            IF viz.center \in {e.source, e.target}
            THEN e.source = viz.center /\ e.target \in StoreTier1
            ELSE e.source \in StoreTier1 /\ e.target \in StoreTier2

\* relationships stored towards the center and from a tier-2 node to a tier-1 node
C19_Witness ==
    /\ Answered /\ CenterExists /\ viz.depth = 2
    /\ \E r \in BagToSet(similar) : r.dst = CenterNode
    /\ \E r \in BagToSet(similar) :
          /\ protNodes[r.src].uniprot_id \in StoreTier2
          /\ protNodes[r.dst].uniprot_id \in StoreTier1
    /\ Cardinality(SimilarOut) >= 2

\* C20: in every run the two uniqueness constraints and the organism index
\* have been created before the first import_batch call, also when the source
\* is empty or smaller than one batch.
C20_ConstraintsBeforeImport ==
    /\ pc \notin {"idle", "constraints", "failed"} =>
          Head(log) = "constraints" /\ RequiredSchema \subseteq schema
    /\ "import_batch" \in Range(log) =>
          Before("constraints", "import_batch") /\ RequiredSchema \subseteq schema

\* the first run, on an empty source, has finished its import step
C20_Witness ==
    /\ runs = 1
    /\ pc = "clean"
    /\ total_processed = 0
    /\ log = <<"constraints", "import">>

\* ---------------------------------------------- the export, nodes and closure
\* C26: in a depth-2 export every protein of the neighbourhood is one node with
\* one role: the center; neighbor_d1 when a SIMILAR relationship joins it to the
\* center; neighbor_d2 when it is neither, and a SIMILAR relationship joins it
\* to a direct neighbour.
C26_OneNodeOneRole ==
    (Answered /\ CenterExists /\ viz.depth = 2) =>
        /\ NodeIds("center") = {viz.center}
        /\ NodeIds("neighbor_d1") = StoreTier1
        /\ NodeIds("neighbor_d2") = StoreTier2
        /\ \A n1, n2 \in viz.elements.nodes : n1.id = n2.id => n1 = n2

C26_Witness ==
    /\ Answered /\ CenterExists /\ viz.depth = 2
    /\ NodeIds("neighbor_d1") # {} /\ NodeIds("neighbor_d2") # {}
    /\ Cardinality(viz.elements.nodes) >= 4

\* interpro ids of the domains of the center in the store
CenterDomains == {domNodes[j] : j \in Targets(hasDomain, CenterNode)}

\* positions of the HAS_DOMAIN edges in the exported list
HasDomainOut ==
    {k \in 1..Len(viz.elements.edges) : viz.elements.edges[k].type = "HAS_DOMAIN"}

\* C27: at either depth the export holds one domain node and one HAS_DOMAIN
\* edge for each domain of the center and no other; each HAS_DOMAIN edge goes
\* from the center to the node of one of its domains; the domains of the
\* neighbours are left out.
C27_CenterDomainsOnly ==
    (Answered /\ CenterExists) =>
        /\ NodeIds("domain") = {DomNodeId(x) : x \in CenterDomains}
        /\ \A x \in CenterDomains :
             /\ Cardinality({n \in viz.elements.nodes : n.id = DomNodeId(x)}) = 1
             /\ Cardinality({k \in HasDomainOut :
                                viz.elements.edges[k].target = DomNodeId(x)}) = 1
        /\ \A k \in HasDomainOut :
             /\ viz.elements.edges[k].source = viz.center
             /\ viz.elements.edges[k].target \in {DomNodeId(x) : x \in CenterDomains}

\* the center has two domains, and a neighbour in the export a domain of its own
C27_Witness ==
    /\ Answered /\ CenterExists
    /\ Cardinality(CenterDomains) = 2 /\ Cardinality(HasDomainOut) = 2
    /\ NodeIds("neighbor_d1") # {}
    /\ \E i \in Adjacent(CenterNode) : Targets(hasDomain, i) # {}

\* C28: the exported elements are closed: both ends of every edge are ids of
\* exported nodes, no two edges share an id, and every neighbor_d1 and
\* neighbor_d2 node is an end of at least one exported SIMILAR edge.
C28_Closed ==
    Answered =>
        /\ \A k \in 1..Len(viz.elements.edges) :
             /\ viz.elements.edges[k].source \in {n.id : n \in viz.elements.nodes}
             /\ viz.elements.edges[k].target \in {n.id : n \in viz.elements.nodes}
        /\ \A k1, k2 \in 1..Len(viz.elements.edges) :
             viz.elements.edges[k1].id = viz.elements.edges[k2].id => k1 = k2
        /\ \A w \in NodeIds("neighbor_d1") \cup NodeIds("neighbor_d2") : EdgesAt(w) # {}

C28_Witness ==
    /\ Answered /\ CenterExists /\ viz.depth = 2
    /\ NodeIds("neighbor_d1") # {} /\ NodeIds("neighbor_d2") # {}
    /\ HasDomainOut # {}
    /\ NbSimilarOut >= 2
    /\ NbSimilarOut < BagCardinality(similar)

\* ids asked for that no protein of the store has
UnknownIds == {c \in CenterIds : MatchProtein(protNodes, c) = {}}

\* C29: a failure of the store during the neighbourhood query is caught; the
\* query and the export return what they return for an unknown center, so the
\* caller cannot tell the two apart.
C29_FailureLooksLikeNotFound ==
    (viz.phase = "exported" /\ viz.raised) =>
        /\ viz.data = <<>>
        /\ viz.elements.nodes = {} /\ viz.elements.edges = <<>>
        /\ \A c \in UnknownIds, depth \in {1, 2} :
             \A data \in get_protein_neighborhood(protNodes, domNodes, hasDomain,
                                                   similar, c, depth) :
                data = viz.data /\ ElementsOf(data) = viz.elements

\* the query failed for a center that the store holds with neighbours
C29_Witness ==
    /\ viz.phase = "exported" /\ viz.raised
    /\ CenterExists /\ Around(similar, CenterNode) # {}
    /\ UnknownIds # {}
    /\ viz.elements = [nodes |-> {}, edges |-> <<>>]

\* ---------------------------------------------------- the demo's connections
\* C30: when main of the combined demo has returned, no client or driver that
\* was opened is left open, however main was left; so also when the MongoDB
\* connection succeeded and the Neo4j connection failed.
C30_EveryConnectionClosed ==
    demo.pc = "returned" => demo.client # "open" /\ demo.driver # "open"

====
